---- MODULE Spec2Model ----
(***************************************************************************)
(* ContinuationService (producer/fable_flow/continuation.py): one logical  *)
(* generate request driven against a chat-completion backend.              *)
(*                                                                         *)
(* Text is a sequence of lexemes.  A lexeme is a run of characters that    *)
(* the string operations of the service treat as a unit: a word, a         *)
(* newline, a continuation preamble ("Continuing:"), a self-reported       *)
(* continuation marker, or a filler of 200 characters.  The Python string  *)
(* is the concatenation of the lexemes.                                    *)
(***************************************************************************)
EXTENDS Integers, Sequences, FiniteSets

VARIABLES
    enabled,             \* config.model.continuation.enabled
    max_continuations,   \* config.model.continuation.max_continuations
    stream,              \* config.model.stream
    pc,                  \* position of the generate coroutine
    full_content,        \* local of _generate_with_continuation_detection
    continuation_count,  \* local of _generate_with_continuation_detection
    finish_reason,       \* local of _generate_with_continuation_detection
    total_tokens,        \* local of _generate_with_continuation_detection
    current_messages,    \* local of _generate_with_continuation_detection
    requests,            \* the messages argument of every backend call, in order
    responses,           \* what the backend answered to every call, in order
    returned,            \* <<>> until generate returns, then <<(text, metadata)>>
    cancelled            \* the cancellation_token handed to the wrapper's create()

\* PDFGenerator (producer/fable_flow/pdf.py): the generator object's fields,
\* the locals of generate_pdf, and what the renders so far produced.
VARIABLES
    html,                \* the document handed to generate_pdf
    pdf_pc,              \* position of generate_pdf
    chapter_bookmarks,   \* self._chapter_bookmarks: title -> bookmark name
    section_bookmarks,   \* self._section_bookmarks: title -> bookmark name
    bookmark_pages,      \* self._bookmark_pages: bookmark name -> page number
    chapter_counter,     \* self._chapter_counter
    section_counter,     \* self._section_counter
    all_elements,        \* local of generate_pdf
    back_cover_element,  \* local of generate_pdf: <<>> for None, else <<element>>
    story_elements,      \* local of generate_pdf: the flow handed to doc.build
    output_pdf,          \* the flow the last doc.build laid out into the output file
    pass1_pages,         \* self._bookmark_pages as the first pass of this render left it
    second_pass,         \* whether this render built the document a second time
    renders              \* what every completed generate_pdf call produced, in order

serviceVars == <<enabled, max_continuations, stream, pc, full_content, continuation_count,
                 finish_reason, total_tokens, current_messages, requests, responses,
                 returned, cancelled>>

pdfVars == <<html, pdf_pc, chapter_bookmarks, section_bookmarks, bookmark_pages,
             chapter_counter, section_counter, all_elements, back_cover_element,
             story_elements, output_pdf, pass1_pages, second_pass, renders>>

\* StoryHTMLFormatter.detect_chapters (producer/fable_flow/story_formatter.py)
\* and the planner's reconstruction of the story from the detected chapters.
VARIABLES
    story_text,          \* the text handed to detect_chapters, as its lines
    chapters,            \* what detect_chapters returned, <<>> before the call
    formatter_pc         \* "idle", "detected" or "reconstructed"

formatterVars == <<story_text, chapters, formatter_pc>>

\* The publishing pipeline: the command that started the run, the output
\* directory, the messages in flight and what the stages did.
VARIABLES entry, disk, inbox, model_calls, writes, ran, answer, plan,
          image_files, html_refs, errors, warnings, pdf_images, planner_input,
          render_calls, illustrations

pipelineVars == <<entry, disk, inbox, model_calls, writes, ran, answer, plan,
                  image_files, html_refs, errors, warnings, pdf_images, planner_input,
                  render_calls, illustrations>>

vars == <<serviceVars, pdfVars, formatterVars, pipelineVars>>

-----------------------------------------------------------------------------
(* Bounds of the model *)

\* Largest configured max_continuations explored (the shipped default is 5).
MaxMaxContinuations == 2

-----------------------------------------------------------------------------
(* Lexemes *)

NL == "\n"
Filler == "<200 characters of story text>"
BracketMarker == "[continuation follows in next response...]"
BracketMarkerUpper == "[CONTINUATION FOLLOWS IN NEXT RESPONSE...]"
DirectMarker == "continuation follows in next response"
GeneralMarker == "due to length constraints"

\* Number of characters of a lexeme.
TokLen(t) ==
    CASE t = NL -> 1
      [] t = Filler -> 200
      [] t \in {BracketMarker, BracketMarkerUpper} -> 42
      [] t = DirectMarker -> 37
      [] t = GeneralMarker -> 25
      [] t \in {"Continuing:", "continuing:"} -> 11
      [] OTHER -> 4

\* str.lower()
Lower(t) ==
    CASE t = BracketMarkerUpper -> BracketMarker
      [] t = "Once" -> "once"
      [] t = "Continuing:" -> "continuing:"
      [] OTHER -> t

LowerSeq(s) == [i \in 1..Len(s) |-> Lower(s[i])]

\* Characters that str.strip() and rstrip("\n\r\t ") remove.
IsSpace(t) == t \in {NL, " ", "\t", "\r"}

RECURSIVE LStrip(_)
LStrip(s) == IF s # <<>> /\ IsSpace(Head(s)) THEN LStrip(Tail(s)) ELSE s

RECURSIVE RStrip(_)
RStrip(s) ==
    IF s # <<>> /\ IsSpace(s[Len(s)]) THEN RStrip(SubSeq(s, 1, Len(s) - 1)) ELSE s

Strip(s) == RStrip(LStrip(s))

RECURSIVE CharLen(_)
CharLen(s) == IF s = <<>> THEN 0 ELSE TokLen(Head(s)) + CharLen(Tail(s))

-----------------------------------------------------------------------------
(* The caller's request and the backend's possible answers *)

messages == << [role |-> "user", content |-> <<"Tell", "a", "story">>] >>

\* Chunk texts the backend can answer with.
Contents ==
    { <<>>,
      <<"Once">>,
      <<"end.", NL>>,
      <<NL, "Continuing:", NL, "end.">>,
      <<"Once", BracketMarker>>,
      <<"end.", BracketMarkerUpper, NL>>,
      <<"Once", GeneralMarker>>,
      <<DirectMarker, "end.">>,
      <<"Once", DirectMarker, NL, "end.">>,
      <<BracketMarker, Filler>> }

\* finish_reason values of the backend; "None" is a response without one.
FinishReasons == {"stop", "length", "content_filter", "function_call", "tool_calls", "None"}

-----------------------------------------------------------------------------
(* ContinuationService: pure helpers *)

TailWindow == 200

\* Lexemes in which a pattern of continuation_patterns occurs (lower case).
continuation_patterns == {BracketMarker, DirectMarker, GeneralMarker}

\* Characters of lexeme t, counted from its end, that a window must cover for a
\* pattern to occur in it: "continuation follows" starts at the second
\* character of the bracket marker, at the first of the others.
NeededSuffix(t) == IF t = BracketMarker THEN TokLen(t) - 1 ELSE TokLen(t)

\* content_lower.endswith(pattern) for some pattern
EndsWithPattern(content_lower) ==
    /\ content_lower # <<>>
    /\ content_lower[Len(content_lower)] \in continuation_patterns

\* some pattern in content_lower[-200:]
PatternInTail(content_lower) ==
    \E i \in 1..Len(content_lower) :
        /\ content_lower[i] \in continuation_patterns
        /\ CharLen(SubSeq(content_lower, i + 1, Len(content_lower)))
             + NeededSuffix(content_lower[i]) <= TailWindow

_has_continuation_indicators(content) ==
    IF content = <<>> THEN FALSE
    ELSE LET content_lower == Strip(LowerSeq(content))
         IN  EndsWithPattern(content_lower) \/ PatternInTail(content_lower)

\* Lexemes the bracket and parenthesis regexes of patterns_to_remove match
\* (re.IGNORECASE), wherever they stand.
IsBracketPattern(t) == Lower(t) = BracketMarker

\* Lexemes the "direct statement" regexes match; they end in $ (re.MULTILINE),
\* so they match only where a line ends.
IsDirectPattern(t) == Lower(t) = DirectMarker

RECURSIVE RemoveDirectAtLineEnd(_)
RemoveDirectAtLineEnd(s) ==
    IF s = <<>> THEN <<>>
    ELSE IF IsDirectPattern(Head(s)) /\ (Len(s) = 1 \/ s[2] = NL)
         THEN RemoveDirectAtLineEnd(Tail(s))
         ELSE <<Head(s)>> \o RemoveDirectAtLineEnd(Tail(s))

_clean_continuation_indicators(content) ==
    IF content = <<>> THEN content
    ELSE LET no_brackets == SelectSeq(content, LAMBDA t : ~IsBracketPattern(t))
         IN  RStrip(RemoveDirectAtLineEnd(no_brackets))

continuation_prefixes ==
    {"Continuing from where I left off:", "Continuing:", "Here's the continuation:",
     "Resuming:"}

\* Mutant of _merge_continuation: the separator is never added.
_merge_continuation_NoSeparator(original, continuation) ==
    LET stripped == Strip(continuation)
        body == IF stripped # <<>> /\ Head(stripped) \in continuation_prefixes
                THEN Strip(Tail(stripped))
                ELSE stripped
    IN  original \o body

_merge_continuation(original, continuation) ==
    LET stripped == Strip(continuation)
        body == IF stripped # <<>> /\ Head(stripped) \in continuation_prefixes
                THEN Strip(Tail(stripped))
                ELSE stripped
    IN  IF original # <<>> /\ original[Len(original)] = NL
        THEN original \o body
        ELSE original \o <<NL, NL>> \o body

\* The continuation request is left out after the assistant turn.
_create_continuation_messages_NoRequest(original_messages, partial_content) ==
    original_messages \o << [role |-> "assistant", content |-> partial_content] >>

_create_continuation_messages(original_messages, partial_content) ==
    original_messages
      \o << [role |-> "assistant", content |-> partial_content],
            [role |-> "user",
             content |-> <<"Please continue from exactly where you stopped.",
                           "Do not repeat any content.">>] >>

\* The finish_reason the service reads off a response: the streaming reader
\* turns a missing one into "unknown".
ExtractFinishReason(r) == IF stream /\ r = "None" THEN "unknown" ELSE r

\* Mutants of WithinLimit: the comparison off by one, either way.
WithinLimit_Strict(n) == n < max_continuations

WithinLimit_Loose(n) == n <= max_continuations + 1

\* continuation_count <= self.config.max_continuations
WithinLimit(n) == n <= max_continuations

\* Accumulate content
Accumulate(count, full, content) ==
    IF count = 0 THEN content ELSE _merge_continuation(full, content)

\* Mutant of Branch: a "stop" always asks for a continuation.
Branch_StopAlwaysContinues(fr, content) ==
    CASE fr = "stop" -> "self_reported"
      [] fr = "length" -> "length"
      [] fr \in {"content_filter", "function_call"} -> "stopped"
      [] OTHER -> "unknown"

\* Mutant of Branch: an unknown finish_reason is treated as a truncation.
Branch_UnknownContinues(fr, content) ==
    CASE fr = "stop" /\ _has_continuation_indicators(content) -> "self_reported"
      [] fr = "stop" -> "natural"
      [] fr \in {"content_filter", "function_call"} -> "stopped"
      [] OTHER -> "length"

\* Which branch of the finish_reason decision a chunk takes.
Branch(fr, content) ==
    CASE fr = "stop" /\ _has_continuation_indicators(content) -> "self_reported"
      [] fr = "stop" -> "natural"
      [] fr = "length" -> "length"
      [] fr \in {"content_filter", "function_call"} -> "stopped"
      [] OTHER -> "unknown"

\* Mutant of ExceptClause: the exception is re-raised.
ExceptClause_Propagate == "raise"

\* What the except clause around a loop iteration does.
ExceptClause == "break"

\* len(text) // 4; the backend of the model reports no usage, so every token
\* count is this estimate.
_estimate_tokens(text) == CharLen(text) \div 4

Metadata(text, count, fr, tokens, strategy) ==
    [text |-> text, total_continuations |-> count, finish_reason |-> fr,
     total_tokens |-> tokens, completion_strategy |-> strategy]

-----------------------------------------------------------------------------
(* State machine *)

\* PDFGenerator.__init__, before any generate_pdf call.
PdfGeneratorConstructed ==
    /\ pdf_pc = "idle"
    /\ chapter_bookmarks = <<>>
    /\ section_bookmarks = <<>>
    /\ bookmark_pages = <<>>
    /\ chapter_counter = 0
    /\ section_counter = 0
    /\ all_elements = <<>>
    /\ back_cover_element = <<>>
    /\ story_elements = <<>>
    /\ output_pdf = <<>>
    /\ pass1_pages = <<>>
    /\ second_pass = FALSE
    /\ renders = <<>>

\* No text has been handed to the formatter.
FormatterIdle ==
    /\ story_text = <<>>
    /\ chapters = <<>>
    /\ formatter_pc = "idle"

\* A document without any div.
\* The output directory and the run of the pipeline before any command.
Absent == [of |-> "", gen |-> "absent"]

TextFiles ==
    {"FR_story.txt", "CR_story.txt", "CM_story.txt", "ED_story.txt",
     "final_proof_story.txt", "final_story.txt", "narration.m4a",
     "image_planner_story.txt"}

BookFiles == {"formatted_book.html", "book.pdf", "book.epub", "book.md"}

CoverFiles == {"front_cover.png", "back_cover.png"}

Files == TextFiles \cup BookFiles \cup CoverFiles

NoAnswer == <<"?">>

\* Every answer approves.
Approves_Always(user_input) == TRUE

PipelineIdle ==
    /\ entry = "none"
    /\ disk = [f \in Files |-> Absent]
    /\ inbox = {}
    /\ model_calls = {}
    /\ writes = {}
    /\ ran = {}
    /\ answer = NoAnswer
    /\ plan = <<>>
    /\ image_files = {}
    /\ html_refs = {}
    /\ errors = {}
    /\ warnings = {}
    /\ pdf_images = {}
    /\ planner_input = "none"
    /\ render_calls = {}
    /\ illustrations = {}

NoDocument == [book_div |-> "none", units |-> <<>>]

Init ==
    /\ enabled \in BOOLEAN
    /\ max_continuations \in 0..MaxMaxContinuations
    /\ stream \in BOOLEAN
    /\ pc = "idle"
    /\ full_content = <<>>
    /\ continuation_count = 0
    /\ finish_reason = ""
    /\ total_tokens = 0
    /\ current_messages = <<>>
    /\ requests = <<>>
    /\ responses = <<>>
    /\ returned = <<>>
    /\ cancelled = FALSE
    /\ html = NoDocument
    /\ PdfGeneratorConstructed
    /\ FormatterIdle
    /\ PipelineIdle

Config == <<enabled, max_continuations, stream>>

\* Mutant of UsesContinuation: the enabled flag is not consulted.
UsesContinuation_Always == TRUE

\* if not self.config.enabled: return await self._single_generation(...)
UsesContinuation == enabled

\* generate_with_continuation: dispatch on config.enabled; the enabled path
\* initialises the locals of _generate_with_continuation_detection.
GenerateWithContinuation ==
    /\ pc = "idle"
    /\ pc' = IF UsesContinuation THEN "loop" ELSE "single"
    /\ full_content' = <<>>
    /\ continuation_count' = 0
    /\ finish_reason' = ""
    /\ total_tokens' = 0
    /\ current_messages' = messages
    /\ UNCHANGED <<Config, requests, responses, returned>>
    /\ UNCHANGED <<cancelled, pdfVars, formatterVars, pipelineVars>>

\* while continuation_count <= max_continuations: client.chat.completions.create;
\* when the condition fails the function returns what it holds.
CreateCompletion ==
    /\ pc = "loop"
    /\ IF WithinLimit(continuation_count)
       THEN /\ requests' = Append(requests, current_messages)
            /\ pc' = "awaiting"
            /\ returned' = returned
       ELSE /\ requests' = requests
            /\ pc' = "done"
            /\ returned' = <<Metadata(full_content, continuation_count, finish_reason,
                                      total_tokens, "hybrid_detection")>>
    /\ UNCHANGED <<Config, full_content, continuation_count, finish_reason,
                   total_tokens, current_messages, responses>>
    /\ UNCHANGED <<cancelled, pdfVars, formatterVars, pipelineVars>>

\* The rest of the loop body, for a call that returned (r, c).
ChunkReturned(r, c) ==
    /\ pc = "awaiting"
    /\ LET fr == ExtractFinishReason(r)
           merged == Accumulate(continuation_count, full_content, c)
           branch == Branch(fr, c)
           count1 == IF branch \in {"self_reported", "length"}
                     THEN continuation_count + 1 ELSE continuation_count
           goes_on == branch \in {"self_reported", "length"} /\ WithinLimit(count1)
           cleaned == _clean_continuation_indicators(c)
           full1 == IF branch = "self_reported" /\ goes_on
                    THEN IF count1 = 1 THEN cleaned
                         ELSE _merge_continuation(merged, cleaned)
                    ELSE merged
       IN  /\ responses' = Append(responses, [kind |-> "chunk", reason |-> r, content |-> c])
           /\ finish_reason' = fr
           /\ total_tokens' = total_tokens + _estimate_tokens(c)
           /\ continuation_count' = count1
           /\ full_content' = full1
           /\ IF goes_on
              THEN /\ current_messages' = _create_continuation_messages(messages, full1)
                   /\ pc' = "loop"
                   /\ returned' = returned
              ELSE /\ current_messages' = current_messages
                   /\ pc' = "done"
                   /\ returned' = <<Metadata(full1, count1, fr, total_tokens', "hybrid_detection")>>
    /\ UNCHANGED <<Config, requests>>
    /\ UNCHANGED <<cancelled, pdfVars, formatterVars, pipelineVars>>

\* The call (or the reading of its response) raised.
CreateRaises ==
    /\ pc = "awaiting"
    /\ responses' = Append(responses, [kind |-> "raise", reason |-> "", content |-> <<>>])
    /\ IF ExceptClause = "break"
       THEN /\ pc' = "done"
            /\ returned' = <<Metadata(full_content, continuation_count, finish_reason,
                                      total_tokens, "hybrid_detection")>>
       ELSE /\ pc' = "raised"
            /\ returned' = returned
    /\ UNCHANGED <<Config, full_content, continuation_count, finish_reason,
                   total_tokens, current_messages, requests>>
    /\ UNCHANGED <<cancelled, pdfVars, formatterVars, pipelineVars>>

\* _single_generation: the one call
SingleCreate ==
    /\ pc = "single"
    /\ requests' = Append(requests, messages)
    /\ pc' = "single_awaiting"
    /\ UNCHANGED <<Config, full_content, continuation_count, finish_reason,
                   total_tokens, current_messages, responses, returned>>
    /\ UNCHANGED <<cancelled, pdfVars, formatterVars, pipelineVars>>

SingleReturned(r, c) ==
    /\ pc = "single_awaiting"
    /\ responses' = Append(responses, [kind |-> "chunk", reason |-> r, content |-> c])
    /\ finish_reason' = ExtractFinishReason(r)
    /\ returned' = <<Metadata(c, 0, ExtractFinishReason(r), _estimate_tokens(c),
                              "single_generation")>>
    /\ pc' = "done"
    /\ UNCHANGED <<Config, full_content, continuation_count, total_tokens,
                   current_messages, requests>>
    /\ UNCHANGED <<cancelled, pdfVars, formatterVars, pipelineVars>>

\* _single_generation has no try: the exception reaches the caller.
SingleRaises ==
    /\ pc = "single_awaiting"
    /\ responses' = Append(responses, [kind |-> "raise", reason |-> "", content |-> <<>>])
    /\ pc' = "raised"
    /\ UNCHANGED <<Config, full_content, continuation_count, finish_reason,
                   total_tokens, current_messages, requests, returned>>
    /\ UNCHANGED <<cancelled, pdfVars, formatterVars, pipelineVars>>

\* EnhancedChatCompletionWrapper.create receives the caller's cancellation_token
\* and does not hand it to the service; the caller may cancel it while the
\* request runs.
Cancel ==
    /\ pc \in {"loop", "awaiting", "single", "single_awaiting"}
    /\ ~cancelled
    /\ cancelled' = TRUE
    /\ UNCHANGED <<Config, full_content, continuation_count, finish_reason, total_tokens,
                   current_messages, requests, responses, returned, pc>>
    /\ UNCHANGED <<pdfVars, formatterVars, pipelineVars>>

BackendReturns == \E r \in FinishReasons, c \in Contents : ChunkReturned(r, c)

SingleBackendReturns == \E r \in FinishReasons, c \in Contents : SingleReturned(r, c)

Next ==
    \/ GenerateWithContinuation
    \/ CreateCompletion
    \/ BackendReturns
    \/ CreateRaises
    \/ SingleCreate
    \/ SingleBackendReturns
    \/ SingleRaises
    \/ Cancel

Spec == Init /\ [][Next]_vars

-----------------------------------------------------------------------------
(* Vocabulary of the properties *)

Calls == Len(requests)

IsChunk(i) == responses[i].kind = "chunk"

ReasonAt(i) == ExtractFinishReason(responses[i].reason)

HasReturned == returned # <<>>

ReturnedText == returned[1].text

\* The backend's answers so far are those of a backend that reports "length"
\* k times and then a "stop" whose text carries no continuation pattern: every
\* answer given is the one that script has at its position.
FollowsLengthsThenStop(k) ==
    /\ Len(responses) <= k + 1
    /\ \A i \in 1..Len(responses) :
        /\ IsChunk(i)
        /\ i <= k => ReasonAt(i) = "length"
        /\ i = k + 1 => /\ ReasonAt(i) = "stop"
                        /\ ~_has_continuation_indicators(responses[i].content)

\* Number of times lexeme w stands in text s.
Occurrences(s, w) == Cardinality({i \in 1..Len(s) : s[i] = w})

RECURSIVE OccurrencesInChunks(_, _)
OccurrencesInChunks(n, w) ==
    IF n = 0 THEN 0
    ELSE Occurrences(responses[n].content, w) + OccurrencesInChunks(n - 1, w)

\* Lexemes that carry story text or a marker (everything but white space).
TextLexemes == UNION {{c[i] : i \in 1..Len(c)} : c \in Contents} \ {NL}

IsMarker(t) == Lower(t) \in continuation_patterns

HasMarker(s) == \E i \in 1..Len(s) : IsMarker(s[i])

\* A later chunk as the merge is described: white space around the chunk and one
\* leading continuation preamble removed, then joined by a blank line unless
\* the text so far ends in a newline.
TrimmedChunk(chunk) ==
    LET t == Strip(chunk)
    IN  IF t # <<>> /\ Head(t) \in continuation_prefixes THEN Strip(Tail(t)) ELSE t

JoinAfter(acc, body) ==
    IF acc # <<>> /\ acc[Len(acc)] = NL THEN acc \o body ELSE acc \o <<NL, NL>> \o body

\* The same with nothing but a leading preamble removed from the chunk.
UntrimmedChunk(chunk) ==
    IF chunk # <<>> /\ chunk[1] \in continuation_prefixes THEN Tail(chunk) ELSE chunk

RECURSIVE MergedTrimmed(_)
MergedTrimmed(n) ==
    IF n = 1 THEN responses[1].content
    ELSE JoinAfter(MergedTrimmed(n - 1), TrimmedChunk(responses[n].content))

RECURSIVE MergedUntrimmed(_)
MergedUntrimmed(n) ==
    IF n = 1 THEN responses[1].content
    ELSE JoinAfter(MergedUntrimmed(n - 1), UntrimmedChunk(responses[n].content))

-----------------------------------------------------------------------------
(* C1 *)

\* C1 as stated: for every k >= 0, against a backend that reports "length" k
\* times and then a natural "stop", generate issues exactly k+1 backend calls.
C1_ExactlyKPlusOneCallsAnyK ==
    (enabled /\ pc = "done") =>
        \A k \in 0..(MaxMaxContinuations + 1) :
            FollowsLengthsThenStop(k) => Calls = k + 1

\* C1 amended: with continuation enabled, for every k with
\* 0 <= k <= max_continuations, against a backend that reports "length" k
\* times and then a natural "stop", generate issues exactly k+1 backend calls.
C1_ExactlyKPlusOneCallsUpToMax ==
    (enabled /\ pc = "done") =>
        \A k \in 0..max_continuations :
            FollowsLengthsThenStop(k) => Calls = k + 1

\* generate has returned after max_continuations "length" chunks and a natural stop.
C1_Witness ==
    /\ enabled /\ pc = "done"
    /\ max_continuations = MaxMaxContinuations
    /\ FollowsLengthsThenStop(max_continuations)
    /\ Len(responses) = max_continuations + 1
    /\ Calls = max_continuations + 1

-----------------------------------------------------------------------------
(* C2 *)

\* C2: the continuation count reported as total_continuations never exceeds
\* the configured max_continuations.
C2_CountNeverExceedsMax ==
    /\ continuation_count <= max_continuations
    /\ HasReturned => returned[1].total_continuations <= max_continuations

-----------------------------------------------------------------------------
(* C3 *)

\* C3 as stated: with continuation enabled, one generate request issues at
\* most max_continuations backend calls.
C3_AtMostMaxCalls == enabled => Calls <= max_continuations

\* C3 amended: with continuation enabled, one generate request issues at most
\* max_continuations + 1 backend calls (the first call and at most
\* max_continuations continuation calls), whatever the backend answers.
C3_AtMostMaxPlusOneCalls == enabled => Calls <= max_continuations + 1

\* generate has returned after max_continuations + 1 calls, the last one cut
\* off by the limit.
C3_Witness ==
    /\ enabled /\ pc = "done"
    /\ max_continuations = MaxMaxContinuations
    /\ Calls = max_continuations + 1
    /\ ReasonAt(Calls) = "length"

-----------------------------------------------------------------------------
(* C4 *)

\* C4: the merged text holds the content of each received chunk at most once:
\* no lexeme of story text or marker stands in the accumulated text more often
\* than it stands in the chunks received.
C4_EachChunkMergedAtMostOnce ==
    enabled =>
        \A w \in TextLexemes :
            Occurrences(full_content, w) <= OccurrencesInChunks(Len(responses), w)

-----------------------------------------------------------------------------
(* C5 *)

\* Chunk i came with finish_reason "stop" and was detected as carrying a
\* self-reported continuation marker.
DetectedChunk(i) ==
    /\ IsChunk(i)
    /\ ReasonAt(i) = "stop"
    /\ _has_continuation_indicators(responses[i].content)

\* Every marker the backend sent came in a chunk that was detected.
MarkersOnlyInDetectedChunks ==
    \A i \in 1..Len(responses) : HasMarker(responses[i].content) => DetectedChunk(i)

\* C5: when the chunks carrying a marker were detected as such, no marker text
\* stands in the text generate returns nor in an assistant partial turn
\* replayed to the backend.
C5_MarkerAbsentFromTextAndReplay ==
    (enabled /\ MarkersOnlyInDetectedChunks) =>
        /\ \A j \in 1..Len(requests) : \A m \in 1..Len(requests[j]) :
              requests[j][m].role = "assistant" => ~HasMarker(requests[j][m].content)
        /\ HasReturned => ~HasMarker(ReturnedText)

-----------------------------------------------------------------------------
(* C6 *)

\* C6 as stated: for every k, after k "length" chunks and a natural "stop" the
\* returned text is the k+1 chunks, each once and in order, with nothing but
\* continuation preambles removed, joined by a blank line unless the text so
\* far ends in a newline.
C6_MergedIsAllChunksAnyK ==
    (enabled /\ pc = "done") =>
        \A k \in 0..(MaxMaxContinuations + 1) :
            FollowsLengthsThenStop(k) =>
                /\ Len(responses) = k + 1
                /\ ReturnedText = MergedUntrimmed(k + 1)

\* C6 amended: with continuation enabled, for every k with
\* 0 <= k <= max_continuations, after k "length" chunks and a natural "stop"
\* the returned text is the k+1 chunks, each once and in order: the first
\* verbatim, every later one with its surrounding white space and one leading
\* continuation preamble removed, joined by a blank line unless the text so
\* far ends in a newline.
C6_MergedIsAllChunksUpToMax ==
    (enabled /\ pc = "done") =>
        \A k \in 0..max_continuations :
            FollowsLengthsThenStop(k) =>
                /\ Len(responses) = k + 1
                /\ ReturnedText = MergedTrimmed(k + 1)

\* Two chunks were merged: a first one that does not end in a newline and a
\* later one that opens with a preamble.
C6_Witness ==
    /\ enabled /\ pc = "done"
    /\ Len(responses) >= 2
    /\ FollowsLengthsThenStop(Len(responses) - 1)
    /\ responses[1].content = <<"Once">>
    /\ responses[2].content = <<NL, "Continuing:", NL, "end.">>
    /\ ReturnedText = MergedTrimmed(Len(responses))

-----------------------------------------------------------------------------
(* C7 *)

\* C7: with continuation enabled, when the first response is a "stop" whose
\* tail carries no continuation pattern, generate has issued exactly one
\* backend call and has returned that response's content.
C7_NaturalStopOneCall ==
    (/\ enabled
     /\ Len(responses) >= 1
     /\ IsChunk(1)
     /\ ReasonAt(1) = "stop"
     /\ ~_has_continuation_indicators(responses[1].content)) =>
        /\ pc = "done"
        /\ Calls = 1
        /\ HasReturned
        /\ ReturnedText = responses[1].content

\* generate returned after one "stop" whose marker lies before the last 200
\* characters, with continuations to spare.
C7_Witness ==
    /\ enabled /\ pc = "done"
    /\ max_continuations >= 1
    /\ Calls = 1
    /\ Len(responses) = 1
    /\ ReasonAt(1) = "stop"
    /\ responses[1].content = <<BracketMarker, Filler>>
    /\ ReturnedText = <<BracketMarker, Filler>>

-----------------------------------------------------------------------------
(* C8 *)

\* The backend answered the call in flight, in this step.
Answered == Len(responses') = Len(responses) + 1

NewAnswer == responses'[Len(responses')]

\* C8: with continuation enabled, a backend call that raises makes generate
\* return, without raising, the text accumulated before that call, and no
\* backend call follows.
C8_ExceptionReturnsAccumulated ==
    [][ /\ (enabled /\ Answered /\ NewAnswer.kind = "raise") =>
              /\ pc' = "done"
              /\ returned' # <<>>
              /\ returned'[1].text = full_content
              /\ requests' = requests
        /\ (enabled /\ pc = "done") => (requests' = requests /\ returned' = returned)
      ]_vars

\* A continuation call raised after a first chunk, and generate returned that
\* chunk.
C8_Witness ==
    /\ enabled /\ pc = "done"
    /\ Len(responses) = 2
    /\ Calls = 2
    /\ responses[2].kind = "raise"
    /\ ReturnedText = <<"Once">>

-----------------------------------------------------------------------------
(* C9 *)

-----------------------------------------------------------------------------
(* C10 *)

\* C10: with continuation disabled, generate issues exactly one backend call,
\* with the caller's messages, and whatever finish_reason it reports returns
\* its content unchanged with a continuation count of 0.
C10_DisabledSingleCall ==
    ~enabled =>
        /\ Calls <= 1
        /\ Calls = 1 => requests[1] = messages
        /\ pc \in {"done", "raised"} => Calls = 1
        /\ (Len(responses) = 1 /\ IsChunk(1)) =>
              /\ pc = "done"
              /\ returned = <<Metadata(responses[1].content, 0, ReasonAt(1),
                                       _estimate_tokens(responses[1].content),
                                       "single_generation")>>

\* With continuation disabled, a truncated chunk that carries a marker was
\* returned as it came.
C10_Witness ==
    /\ ~enabled /\ pc = "done"
    /\ max_continuations >= 1
    /\ Calls = 1
    /\ ReasonAt(1) = "length"
    /\ responses[1].content = <<"Once", BracketMarker>>
    /\ ReturnedText = <<"Once", BracketMarker>>
    /\ returned[1].total_continuations = 0


-----------------------------------------------------------------------------
(* C11 *)

\* C11: the total_continuations generate returns is the number of continuation
\* calls made, the backend calls issued after the first one.
C11_TotalIsContinuationCallsMade ==
    (HasReturned /\ Calls >= 1) => returned[1].total_continuations = Calls - 1

-----------------------------------------------------------------------------
(* C12 *)

\* C12: once the cancellation signal is raised, the call in flight may complete
\* but no further backend call is started for the request.
C12_NoCallAfterCancellation ==
    [][(cancelled /\ pc \in {"loop", "awaiting"} /\ Calls >= 1) => requests' = requests]_vars

-----------------------------------------------------------------------------
(* PDFGenerator: documents *)
(*                                                                         *)
(* A document is the sequence of its top-level div elements in document    *)
(* order, each a page-spread of .page divs or a single .page div, and the  *)
(* way a div.book wraps them: not at all ("none"), around everything       *)
(* ("all"), or around the story while the covers and the publication page  *)
(* that BookStructureGenerator adds stay outside ("content").  A .page     *)
(* holds one formal div, or a chapter title followed by text, or text.     *)

\* Largest number of top-level elements after the leading front matter.
MaxUnits == 3

\* Largest number of generate_pdf calls on one generator object.
MaxRenders == 2

\* generate_pdf looks for the table of contents in all_elements[:5].
TocScanLimit == 5

FORMAL_BOOK_CLASSES ==
    {"front-cover-page", "back-cover-page", "explicit-title-page", "publication-info",
     "title-page", "table-of-contents", "preface", "about-author", "acknowledgments",
     "index"}

PAGE_CLASSES == {"page", "page-spread"}

BACK_MATTER_CLASSES == {"about-author", "acknowledgments", "index"}

\* The classes BookStructureGenerator wraps around the story content.
StructureClasses == {"front-cover-page", "publication-info", "back-cover-page"}

Page(content, title) == [content |-> content, title |-> title]

Element(cls, pages) == [cls |-> cls, pages |-> pages]

BodyElements ==
    {Element("page-spread", <<Page("front-cover-page", "")>>),
     Element("page-spread", <<Page("table-of-contents", "")>>),
     Element("page-spread", <<Page("preface", "Preface")>>),
     Element("page-spread", <<Page("preface", "Foreword")>>),
     Element("page-spread", <<Page("about-author", "About the Author")>>),
     Element("page-spread", <<Page("chapter", "A")>>),
     Element("page-spread", <<Page("chapter", "B")>>),
     Element("page-spread", <<Page("text", "")>>),
     Element("page-spread", <<Page("text", ""), Page("text", "")>>),
     Element("page-spread", <<Page("back-cover-page", "")>>),
     Element("page", <<Page("text", "")>>)}

FrontMatterElement == Element("page-spread", <<Page("publication-info", "")>>)

\* The chapter-name spans of the toc-entry children of the table-of-contents div.
TocEntryNames == <<"A", "B">>

Repeat(x, n) == [i \in 1..n |-> x]

Documents ==
    {[book_div |-> b, units |-> Repeat(FrontMatterElement, lead) \o body] :
        b \in {"none", "content", "all"},
        lead \in {0, TocScanLimit},
        body \in UNION {[1..n -> BodyElements] : n \in 0..MaxUnits}}

RECURSIVE Flatten(_)
Flatten(ss) == IF ss = <<>> THEN <<>> ELSE Head(ss) \o Flatten(Tail(ss))

\* element.find("div", class_=cls)
HasDiv(el, cls) == \E j \in 1..Len(el.pages) : el.pages[j].content = cls

\* element.find("h2", class_="chapter-title")
HasChapterTitle(el) == HasDiv(el, "chapter")

HasFormalChildren(el) == \E cls \in FORMAL_BOOK_CLASSES : HasDiv(el, cls)

\* is_descendant_of(elem, book_div)
InsideBookDiv(doc, el) ==
    \/ doc.book_div = "all"
    \/ doc.book_div = "content" /\ ~\E cls \in StructureClasses : HasDiv(el, cls)

\* Every .page of the document, in document order.
DocumentPages(doc) == Flatten([i \in 1..Len(doc.units) |-> doc.units[i].pages])

PagesOfClass(doc, cls) ==
    LET Test(p) == p.content = cls IN SelectSeq(DocumentPages(doc), Test)

Titles(pages) == [i \in 1..Len(pages) |-> pages[i].title]

-----------------------------------------------------------------------------
(* PDFGenerator: dictionaries, in insertion order *)

NoKey == <<>>

DictHas(d, k) == \E i \in 1..Len(d) : d[i].key = k

DictGet(d, k, default) ==
    IF DictHas(d, k) THEN d[CHOOSE i \in 1..Len(d) : d[i].key = k].value ELSE default

DictPut(d, k, v) ==
    IF DictHas(d, k)
    THEN [i \in 1..Len(d) |-> IF d[i].key = k THEN [key |-> k, value |-> v] ELSE d[i]]
    ELSE Append(d, [key |-> k, value |-> v])

-----------------------------------------------------------------------------
(* PDFGenerator: pre-scan *)

\* f"chapter_{n}", f"section_{n}"
BookmarkName(family, n) == <<family, n>>

\* generate_pdf keeps the counters of the previous render.
ResetTracking_KeepCounters(cc, sc) ==
    [chapter_bookmarks |-> <<>>, section_bookmarks |-> <<>>, bookmark_pages |-> <<>>,
     chapter_counter |-> cc, section_counter |-> sc]

\* generate_pdf: "Reset chapter and section tracking for new PDF generation".
ResetTracking(cc, sc) ==
    [chapter_bookmarks |-> <<>>, section_bookmarks |-> <<>>, bookmark_pages |-> <<>>,
     chapter_counter |-> 0, section_counter |-> 0]

\* The pre-scan visits the back matter before the preface.
SectionClasses_BackMatterFirst == <<"about-author", "acknowledgments", "index", "preface">>

\* The order in which the pre-scan visits the formal section classes.
SectionClasses == <<"preface", "about-author", "acknowledgments", "index">>

\* soup.find_all("h2", class_="chapter-title"), as title texts.
ChapterTitles(doc) == Titles(PagesOfClass(doc, "chapter"))

\* for section_class in [...]: for section_div in soup.find_all("div", class_=section_class)
SectionTitles(doc) ==
    Flatten([c \in 1..Len(SectionClasses) |-> Titles(PagesOfClass(doc, SectionClasses[c]))])

RECURSIVE ScanTitles(_, _, _, _)
ScanTitles(titles, family, bookmarks, counter) ==
    IF titles = <<>>
    THEN [bookmarks |-> bookmarks, counter |-> counter]
    ELSE IF Head(titles) # "" /\ ~DictHas(bookmarks, Head(titles))
         THEN ScanTitles(Tail(titles), family,
                         DictPut(bookmarks, Head(titles), BookmarkName(family, counter)),
                         counter + 1)
         ELSE ScanTitles(Tail(titles), family, bookmarks, counter)

_prescan_chapters_and_sections(doc, self) ==
    LET ch == ScanTitles(ChapterTitles(doc), "chapter",
                         self.chapter_bookmarks, self.chapter_counter)
        se == ScanTitles(SectionTitles(doc), "section",
                         self.section_bookmarks, self.section_counter)
    IN  [chapter_bookmarks |-> ch.bookmarks, chapter_counter |-> ch.counter,
         section_bookmarks |-> se.bookmarks, section_counter |-> se.counter,
         bookmark_pages |-> self.bookmark_pages]

-----------------------------------------------------------------------------
(* PDFGenerator: collecting the elements to process *)

CollectElements(doc) ==
    LET IsSpread(el) == el.cls = "page-spread"
        IsOutsideFormalSpread(el) ==
            IsSpread(el) /\ ~InsideBookDiv(doc, el) /\ HasFormalChildren(el)
        IsBackCover(el) == HasDiv(el, "back-cover-page")
        IsNotBackCover(el) == ~IsBackCover(el)
        IsBookChild(el) == InsideBookDiv(doc, el) /\ el.cls \in PAGE_CLASSES
        outside == SelectSeq(doc.units, IsOutsideFormalSpread)
        covers == SelectSeq(outside, IsBackCover)
    IN  IF doc.book_div # "none"
        THEN [all_elements |-> SelectSeq(outside, IsNotBackCover)
                                  \o SelectSeq(doc.units, IsBookChild),
              back_cover_element |->
                  IF covers = <<>> THEN <<>> ELSE <<covers[Len(covers)]>>]
        ELSE [all_elements |-> SelectSeq(doc.units, IsSpread),
              back_cover_element |-> <<>>]

-----------------------------------------------------------------------------
(* PDFGenerator: the page flow *)

\* A flowable of the story.  unit is the position, among the elements
\* processed, of the element whose processing emitted it.
Flowable(type, key, text, page, unit) ==
    [type |-> type, key |-> key, text |-> text, page |-> page, unit |-> unit]

PageBreak(u) == Flowable("PageBreak", NoKey, "", 0, u)

BookmarkFlowable(key, title, u) == Flowable("Bookmark", key, title, 0, u)

Paragraph(style, text, u) == Flowable(style, NoKey, text, 0, u)

\* The table of contents shows no page number for any entry.
TocPageNumber_Unknown(tracker, bookmark_name) == 0

\* self._bookmark_pages.get(bookmark_name, "?"), 0 standing for "?".
TocPageNumber(tracker, bookmark_name) == DictGet(tracker, bookmark_name, 0)

TocEntry(entry_name, self, u) ==
    LET bookmark_name ==
            IF DictHas(self.chapter_bookmarks, entry_name)
            THEN DictGet(self.chapter_bookmarks, entry_name, NoKey)
            ELSE DictGet(self.section_bookmarks, entry_name, NoKey)
    IN  IF bookmark_name # NoKey
        THEN Flowable("toc-entry", bookmark_name, entry_name,
                      TocPageNumber(self.bookmark_pages, bookmark_name), u)
        ELSE Paragraph("toc-entry", entry_name, u)

_process_table_of_contents(self, u) ==
    [i \in 1..Len(TocEntryNames) |-> TocEntry(TocEntryNames[i], self, u)]
    \o [i \in 1..Len(self.section_bookmarks) |->
            Flowable("toc-entry", self.section_bookmarks[i].value,
                     self.section_bookmarks[i].key,
                     TocPageNumber(self.bookmark_pages, self.section_bookmarks[i].value),
                     u)]
    \o <<PageBreak(u), PageBreak(u)>>

\* _process_preface and _process_back_matter
SectionFlow(page, self, u) ==
    (IF DictHas(self.section_bookmarks, page.title)
     THEN <<BookmarkFlowable(DictGet(self.section_bookmarks, page.title, NoKey),
                             page.title, u)>>
     ELSE <<>>)
    \o <<Paragraph("preface-title", page.title, u), Paragraph("preface-text", "", u)>>

ChapterFlow(page, self, u) ==
    (IF DictHas(self.chapter_bookmarks, page.title)
     THEN <<BookmarkFlowable(DictGet(self.chapter_bookmarks, page.title, NoKey),
                             page.title, u)>>
     ELSE <<>>)
    \o <<Paragraph("chapter-title", page.title, u), Paragraph("story-text", "", u)>>

_process_single_page(page, self, u) ==
    CASE page.content = "front-cover-page" ->
            <<Paragraph("front-cover-title", "", u), PageBreak(u)>>
      [] page.content = "publication-info" ->
            <<Paragraph("publication-info", "", u), PageBreak(u)>>
      [] page.content = "back-cover-page" ->
            <<Paragraph("back-cover-description", "", u)>>
      [] page.content = "table-of-contents" -> _process_table_of_contents(self, u)
      [] page.content \in {"preface", "about-author"} -> SectionFlow(page, self, u)
      [] page.content = "chapter" -> ChapterFlow(page, self, u)
      [] OTHER -> <<Paragraph("story-text", "", u)>>

\* What _process_pages emits in iteration i of its loop over pages.
ElementFlow(pages, i, base, self) ==
    LET page_element == pages[i]
        u == base + i
        is_last_page == i = Len(pages)
        before ==
            IF HasChapterTitle(page_element) /\ i > 1 /\ ~HasChapterTitle(pages[i - 1])
            THEN <<PageBreak(u)>>
            ELSE <<>>
        spread ==
            Flatten([j \in 1..Len(page_element.pages) |->
                        (IF j > 1 THEN <<PageBreak(u)>> ELSE <<>>)
                        \o _process_single_page(page_element.pages[j], self, u)])
        next_needs_break ==
            /\ ~is_last_page
            /\ \/ HasChapterTitle(pages[i + 1])
               \/ \E cls \in BACK_MATTER_CLASSES : HasDiv(pages[i + 1], cls)
    IN  before
        \o (IF page_element.cls = "page-spread"
            THEN spread \o (IF next_needs_break THEN <<PageBreak(u)>> ELSE <<>>)
            ELSE _process_single_page(page_element.pages[1], self, u)
                 \o (IF ~is_last_page THEN <<PageBreak(u)>> ELSE <<>>))

_process_pages(pages, base, self) ==
    Flatten([i \in 1..Len(pages) |-> ElementFlow(pages, i, base, self)])

\* generate_pdf: the story of one pass, the back cover appended at the end.
Story(elements, back_cover, self) ==
    _process_pages(elements, 0, self)
    \o (IF back_cover # <<>>
        THEN <<PageBreak(Len(elements) + 1)>>
             \o _process_pages(back_cover, Len(elements), self)
        ELSE <<>>)

\* doc.build: lays the story out from the given page on; a PageBreak ends the
\* page, and drawing a BookmarkFlowable stores the page it is drawn on.
RECURSIVE Layout(_, _, _)
Layout(story, page, tracker) ==
    IF story = <<>>
    THEN tracker
    ELSE CASE Head(story).type = "PageBreak" -> Layout(Tail(story), page + 1, tracker)
           [] Head(story).type = "Bookmark" ->
                Layout(Tail(story), page, DictPut(tracker, Head(story).key, page))
           [] OTHER -> Layout(Tail(story), page, tracker)

\* any("table-of-contents" in str(elem) for elem in all_elements[:5])
has_toc(elements) ==
    \E i \in 1..Len(elements) : i <= TocScanLimit /\ HasDiv(elements[i], "table-of-contents")

-----------------------------------------------------------------------------
(* PDFGenerator: generate_pdf *)

Self == [chapter_bookmarks |-> chapter_bookmarks, section_bookmarks |-> section_bookmarks,
         bookmark_pages |-> bookmark_pages,
         chapter_counter |-> chapter_counter, section_counter |-> section_counter]

Rendered(out, tracker, second) ==
    [chapter_bookmarks |-> chapter_bookmarks, section_bookmarks |-> section_bookmarks,
     bookmark_pages |-> tracker, output_pdf |-> out, second_pass |-> second]

InitPdf ==
    /\ html \in Documents
    /\ PdfGeneratorConstructed
    /\ enabled = FALSE
    /\ max_continuations = 0
    /\ stream = FALSE
    /\ pc = "idle"
    /\ full_content = <<>>
    /\ continuation_count = 0
    /\ finish_reason = ""
    /\ total_tokens = 0
    /\ current_messages = <<>>
    /\ requests = <<>>
    /\ responses = <<>>
    /\ returned = <<>>
    /\ cancelled = FALSE
    /\ FormatterIdle
    /\ PipelineIdle

\* generate_pdf up to the first doc.build: reset, pre-scan, collection, story.
GeneratePdf ==
    /\ pdf_pc \in {"idle", "done"}
    /\ Len(renders) < MaxRenders
    /\ LET scan == _prescan_chapters_and_sections(
                       html, ResetTracking(chapter_counter, section_counter))
           collected == CollectElements(html)
       IN  /\ chapter_bookmarks' = scan.chapter_bookmarks
           /\ section_bookmarks' = scan.section_bookmarks
           /\ chapter_counter' = scan.chapter_counter
           /\ section_counter' = scan.section_counter
           /\ bookmark_pages' = scan.bookmark_pages
           /\ all_elements' = collected.all_elements
           /\ back_cover_element' = collected.back_cover_element
           /\ story_elements' = Story(collected.all_elements,
                                      collected.back_cover_element, scan)
    /\ pdf_pc' = "first_pass"
    /\ pass1_pages' = <<>>
    /\ second_pass' = FALSE
    /\ UNCHANGED <<html, output_pdf, renders, serviceVars, formatterVars, pipelineVars>>

\* The first doc.build, the test for a second pass, and the rebuilt story.
FirstPass ==
    /\ pdf_pc = "first_pass"
    /\ LET tracked == Layout(story_elements, 1, bookmark_pages)
       IN  /\ bookmark_pages' = tracked
           /\ pass1_pages' = tracked
           /\ output_pdf' = story_elements
           /\ IF tracked # <<>> /\ has_toc(all_elements)
              THEN /\ story_elements' =
                          Story(all_elements, back_cover_element,
                                [Self EXCEPT !.bookmark_pages = tracked])
                   /\ pdf_pc' = "second_pass"
                   /\ UNCHANGED renders
              ELSE /\ story_elements' = <<>>
                   /\ pdf_pc' = "done"
                   /\ renders' = Append(renders, Rendered(story_elements, tracked, FALSE))
    /\ UNCHANGED <<html, chapter_bookmarks, section_bookmarks, chapter_counter,
                   section_counter, all_elements, back_cover_element, second_pass,
                   serviceVars, formatterVars, pipelineVars>>

\* The second doc.build.
SecondPass ==
    /\ pdf_pc = "second_pass"
    /\ LET tracked == Layout(story_elements, 1, bookmark_pages)
       IN  /\ bookmark_pages' = tracked
           /\ renders' = Append(renders, Rendered(story_elements, tracked, TRUE))
    /\ output_pdf' = story_elements
    /\ story_elements' = <<>>
    /\ second_pass' = TRUE
    /\ pdf_pc' = "done"
    /\ UNCHANGED <<html, chapter_bookmarks, section_bookmarks, chapter_counter,
                   section_counter, all_elements, back_cover_element, pass1_pages,
                   serviceVars, formatterVars, pipelineVars>>

NextPdf ==
    \/ GeneratePdf
    \/ FirstPass
    \/ SecondPass

SpecPdf == InitPdf /\ [][NextPdf]_vars

-----------------------------------------------------------------------------
(* PDFGenerator: vocabulary of the properties *)

Rendering == pdf_pc = "done"

IsPageBreak(f) == f.type = "PageBreak"

\* The table-of-contents lines that link to a bookmark.
IsTocLink(f) == f.type = "toc-entry" /\ f.key # NoKey

TocLinks(story) == SelectSeq(story, IsTocLink)

\* The page the layout puts position i of a story on.
PageOf(story, i) == 1 + Cardinality({k \in 1..(i - 1) : IsPageBreak(story[k])})

\* How many page breaks end at position n of a story, one right after another.
RECURSIVE BreaksEndingAt(_, _)
BreaksEndingAt(story, n) ==
    IF n = 0 \/ ~IsPageBreak(story[n]) THEN 0 ELSE 1 + BreaksEndingAt(story, n - 1)

\* Where the block of a chapter title starts: at its bookmark if it has one.
TitleBlockStart(story, i) ==
    IF i > 1 /\ story[i - 1].type = "Bookmark" THEN i - 1 ELSE i

DocumentHasDiv(cls) == \E i \in 1..Len(html.units) : HasDiv(html.units[i], cls)

\* The elements processed, the separated back cover last.
Processed == all_elements \o back_cover_element

ContentOf(story, u) == {k \in 1..Len(story) : story[k].unit = u /\ ~IsPageBreak(story[k])}

BookmarkEntries == chapter_bookmarks \o section_bookmarks

\* Position in the document of the first page of one of the classes with the title.
FirstPosition(classes, title) ==
    LET P == DocumentPages(html)
    IN  CHOOSE i \in 1..Len(P) :
            /\ P[i].content \in classes /\ P[i].title = title
            /\ \A j \in 1..(i - 1) : ~(P[j].content \in classes /\ P[j].title = title)

ClassRank(title) ==
    LET P == DocumentPages(html)
        order == <<"preface", "about-author", "acknowledgments", "index">>
    IN  CHOOSE c \in 1..Len(order) :
            /\ \E i \in 1..Len(P) : P[i].content = order[c] /\ P[i].title = title
            /\ \A d \in 1..(c - 1) :
                   ~\E i \in 1..Len(P) : P[i].content = order[d] /\ P[i].title = title

ChaptersInDocumentOrder ==
    \A i, j \in 1..Len(chapter_bookmarks) :
        FirstPosition({"chapter"}, chapter_bookmarks[i].key)
            < FirstPosition({"chapter"}, chapter_bookmarks[j].key)
        => chapter_bookmarks[i].value[2] < chapter_bookmarks[j].value[2]

-----------------------------------------------------------------------------
(* C13 *)

\* C13: after a render with a second pass, every table-of-contents line that
\* links to a bookmark shows the page the first pass recorded for that
\* bookmark (none when the first pass recorded none), and every render of the
\* unchanged document shows the same lines with the same page numbers.
C13_TocShowsPass1Pages ==
    (Rendering /\ second_pass) =>
        /\ \A i \in 1..Len(output_pdf) :
               IsTocLink(output_pdf[i]) =>
                   output_pdf[i].page = DictGet(pass1_pages, output_pdf[i].key, 0)
        /\ \A r \in 1..Len(renders) :
               TocLinks(renders[r].output_pdf) = TocLinks(output_pdf)

C13_Witness ==
    /\ Rendering /\ second_pass /\ Len(renders) = 2
    /\ \E i, j \in 1..Len(output_pdf) :
           /\ IsTocLink(output_pdf[i]) /\ IsTocLink(output_pdf[j])
           /\ output_pdf[i].key[1] = "chapter" /\ output_pdf[j].key[1] = "section"
           /\ output_pdf[i].page >= 2 /\ output_pdf[j].page >= 2
           /\ output_pdf[i].page # output_pdf[j].page

-----------------------------------------------------------------------------
(* C14 *)

\* C14: when the first pass recorded at least one bookmark page, the render
\* builds a second time exactly when the document has a table-of-contents
\* section, at whatever position.
C14_SecondPassIffTocAnywhere ==
    (Rendering /\ pass1_pages # <<>>) =>
        (second_pass <=> DocumentHasDiv("table-of-contents"))

-----------------------------------------------------------------------------
(* C15 *)

\* C15: in the flow laid out, every chapter title that does not open the flow
\* has exactly one page break right before it.
C15_OneBreakBeforeChapterTitle ==
    \A i \in 1..Len(output_pdf) :
        (output_pdf[i].type = "chapter-title" /\ TitleBlockStart(output_pdf, i) > 1)
        => BreaksEndingAt(output_pdf, TitleBlockStart(output_pdf, i) - 1) = 1

-----------------------------------------------------------------------------
(* C16 *)

\* C16: between the content of any two consecutive page-spread elements of the
\* flow laid out there is a page break.
C16_BreakBetweenSpreads ==
    Rendering =>
        \A u \in 1..(Len(Processed) - 1) :
            (/\ Processed[u].cls = "page-spread"
             /\ Processed[u + 1].cls = "page-spread")
            => \E k \in 1..Len(output_pdf) :
                   /\ IsPageBreak(output_pdf[k])
                   /\ \A a \in ContentOf(output_pdf, u) : a < k
                   /\ \A b \in ContentOf(output_pdf, u + 1) : k < b

-----------------------------------------------------------------------------
(* C17 *)

\* C17: when the document has a back cover and the flow laid out has other
\* content, the back cover is the last flowable of the flow and the flowable
\* right before it is a page break.
C17_BackCoverLastAfterBreak ==
    (/\ Rendering
     /\ DocumentHasDiv("back-cover-page")
     /\ \E k \in 1..Len(output_pdf) :
            output_pdf[k].type \notin {"PageBreak", "back-cover-description"}) =>
        /\ Len(output_pdf) >= 2
        /\ output_pdf[Len(output_pdf)].type = "back-cover-description"
        /\ IsPageBreak(output_pdf[Len(output_pdf) - 1])

-----------------------------------------------------------------------------
(* C18 *)

-----------------------------------------------------------------------------
(* C19 *)

\* C19: in the flow laid out, a bookmark name is painted by one flowable only,
\* and the page recorded for it is the page of the first occurrence of its
\* title.
C19_OnlyFirstOccurrenceBookmarked ==
    Rendering =>
        \A i \in 1..Len(output_pdf) :
            output_pdf[i].type = "Bookmark" =>
                /\ \A j \in 1..Len(output_pdf) :
                       (output_pdf[j].type = "Bookmark"
                        /\ output_pdf[j].key = output_pdf[i].key) => j = i
                /\ DictGet(bookmark_pages, output_pdf[i].key, 0) = PageOf(output_pdf, i)

-----------------------------------------------------------------------------
(* C20 *)

\* C20: every pre-scan of the unchanged document gives each title the bookmark
\* name the earlier pre-scans gave it, and one pre-scan never gives two
\* titles the same bookmark name.
C20_IdsStableAndUnique ==
    /\ (pdf_pc # "idle") =>
           \A r \in 1..Len(renders) :
               /\ renders[r].chapter_bookmarks = chapter_bookmarks
               /\ renders[r].section_bookmarks = section_bookmarks
    /\ \A i, j \in 1..Len(BookmarkEntries) :
           BookmarkEntries[i].value = BookmarkEntries[j].value => i = j

C20_Witness ==
    /\ pdf_pc = "first_pass"
    /\ Len(renders) = 1
    /\ Len(chapter_bookmarks) = 2
    /\ Len(section_bookmarks) >= 1
    /\ renders[1].chapter_bookmarks = chapter_bookmarks


-----------------------------------------------------------------------------
(* C29 *)

\* C29: the first backend call carries the caller's messages; every later call
\* carries the caller's messages, unchanged and in order, followed by exactly
\* two messages: an assistant turn and the user turn asking to continue without
\* repeating; while that call is in flight the assistant turn holds the text
\* accumulated so far.
C29_ContinuationCallShape ==
    /\ Calls >= 1 => requests[1] = messages
    /\ \A i \in 2..Calls :
           /\ Len(requests[i]) = Len(messages) + 2
           /\ SubSeq(requests[i], 1, Len(messages)) = messages
           /\ requests[i][Len(messages) + 1].role = "assistant"
           /\ requests[i][Len(messages) + 2] =
                  [role |-> "user",
                   content |-> <<"Please continue from exactly where you stopped.",
                                 "Do not repeat any content.">>]
    /\ (pc = "awaiting" /\ Calls >= 2) =>
           requests[Calls][Len(messages) + 1].content = full_content

C29_Witness ==
    /\ pc = "awaiting"
    /\ Calls = 3
    /\ full_content # <<>>
    /\ requests[2][Len(messages) + 1].content # requests[3][Len(messages) + 1].content

-----------------------------------------------------------------------------
(* StoryHTMLFormatter.detect_chapters *)
(*                                                                         *)
(* A text is the sequence of its lines (story_text.split("\n")).  A line   *)
(* is a run of leading "#" symbols and the body that follows them, both    *)
(* stripped of surrounding blanks.                                         *)

\* Largest number of lines of a text handed to detect_chapters.
MaxLines == 4

Line(hashes, body) == [hashes |-> hashes, body |-> body]

\* Bodies that chapter_pattern matches: "Chapter", a number, ":" and a title.
ChapterBodies == {"Chapter 1: A", "Chapter 2: B"}

Lines ==
    {Line(0, "Chapter 1: A"), Line(2, "Chapter 1: A"),
     Line(0, "Chapter 2: B"), Line(2, "Chapter 2: B"),
     Line(1, "Book"), Line(0, "once"), Line(0, "upon"), Line(0, ""), Line(0, "---")}

StoryTexts == UNION {[1..n -> Lines] : n \in 1..MaxLines}

\* stripped.startswith("#")
StartsWithHash(l) == l.hashes > 0

\* not stripped
IsBlank(l) == l.hashes = 0 /\ l.body = ""

\* stripped.startswith("---")
StartsWithRule(l) == l.hashes = 0 /\ l.body = "---"

\* re.match(chapter_pattern, stripped, re.IGNORECASE)
MatchesChapterPattern(l) == l.hashes \in {0, 2} /\ l.body \in ChapterBodies

\* stripped.lstrip("#").strip()
CleanTitle(l) == l.body

NoTitle == "None"

\* One iteration of the loop of detect_chapters over the lines.
DetectStep(st, l) ==
    IF ~st.book_title_seen /\ StartsWithHash(l)
    THEN [st EXCEPT !.book_title_seen = TRUE]
    ELSE IF MatchesChapterPattern(l)
    THEN [st EXCEPT
            !.chapters = IF st.title # NoTitle
                         THEN Append(st.chapters, <<st.title, st.content>>)
                         ELSE st.chapters,
            !.title = CleanTitle(l),
            !.content = <<>>]
    ELSE IF st.title # NoTitle
    THEN IF st.content = <<>> /\ IsBlank(l)
         THEN st
         ELSE [st EXCEPT !.content = Append(st.content, l)]
    ELSE IF ~IsBlank(l) /\ ~StartsWithHash(l) /\ ~StartsWithRule(l)
         THEN [st EXCEPT !.content = Append(st.content, l)]
         ELSE st

RECURSIVE DetectLoop(_, _)
DetectLoop(st, lines) ==
    IF lines = <<>> THEN st ELSE DetectLoop(DetectStep(st, Head(lines)), Tail(lines))

detect_chapters(text) ==
    LET st == DetectLoop([title |-> NoTitle, content |-> <<>>, chapters |-> <<>>,
                          book_title_seen |-> FALSE], text)
    IN  IF st.title # NoTitle
        THEN Append(st.chapters, <<st.title, st.content>>)
        ELSE IF st.content # <<>>
             THEN <<<<"Story", st.content>>>>
             ELSE st.chapters

\* chapter_content.strip(), on the lines of the content.
RECURSIVE StripBlankLines(_)
StripBlankLines(content) ==
    IF content = <<>> THEN <<>>
    ELSE IF IsBlank(Head(content)) THEN StripBlankLines(Tail(content))
    ELSE IF IsBlank(content[Len(content)])
         THEN StripBlankLines(SubSeq(content, 1, Len(content) - 1))
         ELSE content

\* _reconstruct_story_with_chapters: the header lines kept from the original.
RECURSIVE HeaderLines(_, _)
HeaderLines(lines, story_parts) ==
    IF lines = <<>> THEN story_parts
    ELSE LET l == Head(lines)
         IN  IF StartsWithHash(l) /\ l.body \notin ChapterBodies
             THEN HeaderLines(Tail(lines), Append(story_parts, l))
             ELSE IF StartsWithRule(l)
             THEN HeaderLines(Tail(lines), Append(story_parts, l))
             ELSE IF l.body \in ChapterBodies /\ l.hashes \in {0, 2}
             THEN story_parts
             ELSE IF IsBlank(l) /\ story_parts # <<>>
             THEN HeaderLines(Tail(lines), Append(story_parts, Line(0, "")))
             ELSE HeaderLines(Tail(lines), story_parts)

ChapterLines(chapter) ==
    <<Line(2, chapter[1]), Line(0, "")>>
    \o (IF StripBlankLines(chapter[2]) = <<>> THEN <<Line(0, "")>>
        ELSE StripBlankLines(chapter[2]))
    \o <<Line(0, ""), Line(0, "")>>

_reconstruct_story_with_chapters(chs, original_story) ==
    LET header == HeaderLines(original_story, <<>>)
    IN  (IF header # <<>> THEN Append(header, Line(0, "")) ELSE <<>>)
        \o Flatten([i \in 1..Len(chs) |-> ChapterLines(chs[i])])

InitFormatter ==
    /\ story_text \in StoryTexts
    /\ chapters = <<>>
    /\ formatter_pc = "idle"
    /\ PipelineIdle
    /\ html = NoDocument
    /\ PdfGeneratorConstructed
    /\ enabled = FALSE
    /\ max_continuations = 0
    /\ stream = FALSE
    /\ pc = "idle"
    /\ full_content = <<>>
    /\ continuation_count = 0
    /\ finish_reason = ""
    /\ total_tokens = 0
    /\ current_messages = <<>>
    /\ requests = <<>>
    /\ responses = <<>>
    /\ returned = <<>>
    /\ cancelled = FALSE

\* detect_chapters is applied to the text: by the planner to final_story.txt,
\* by the book producer to the planner's reconstructed story.
DetectChapters ==
    /\ formatter_pc \in {"idle", "reconstructed"}
    /\ chapters' = detect_chapters(story_text)
    /\ formatter_pc' = IF formatter_pc = "idle" THEN "detected" ELSE "redetected"
    /\ UNCHANGED <<story_text, serviceVars, pdfVars, pipelineVars>>

\* The planner rebuilds the story from the chapters it detected.
ReconstructStory ==
    /\ formatter_pc = "detected"
    /\ story_text' = _reconstruct_story_with_chapters(chapters, story_text)
    /\ formatter_pc' = "reconstructed"
    /\ UNCHANGED <<chapters, serviceVars, pdfVars, pipelineVars>>

NextFormatter ==
    \/ DetectChapters
    \/ ReconstructStory

SpecFormatter == InitFormatter /\ [][NextFormatter]_vars

-----------------------------------------------------------------------------
(* detect_chapters: vocabulary of the properties *)

Detected == formatter_pc \in {"detected", "redetected"}

\* The positions of the chapter-marker lines of the text.
MarkerPositions == {i \in 1..Len(story_text) : MatchesChapterPattern(story_text[i])}

\* The position of the k-th marker line.
MarkerAt(k) ==
    CHOOSE i \in MarkerPositions : Cardinality({j \in MarkerPositions : j <= i}) = k

\* The lines after the k-th marker line and before the next one.
ChapterSegment(k) ==
    LET n == Cardinality(MarkerPositions)
        to == IF k < n THEN MarkerAt(k + 1) - 1 ELSE Len(story_text)
    IN  SubSeq(story_text, MarkerAt(k) + 1, to)

RECURSIVE IsSubsequence(_, _)
IsSubsequence(a, b) ==
    IF a = <<>> THEN TRUE
    ELSE IF b = <<>> THEN FALSE
    ELSE IF Head(a) = Head(b) THEN IsSubsequence(Tail(a), Tail(b))
    ELSE IsSubsequence(a, Tail(b))

\* The text without its leading heading lines.
RECURSIVE DropLeadingHeadings(_)
DropLeadingHeadings(lines) ==
    IF lines # <<>> /\ StartsWithHash(Head(lines))
    THEN DropLeadingHeadings(Tail(lines))
    ELSE lines

-----------------------------------------------------------------------------
(* C25 *)

\* C25: for a text with n >= 1 chapter-marker lines detect_chapters returns n
\* tuples in marker order, the k-th titled as the k-th marker line without its
\* heading symbols and holding only lines that stand between the k-th marker
\* and the next.
C25_OneTuplePerMarker ==
    (Detected /\ MarkerPositions # {}) =>
        /\ Len(chapters) = Cardinality(MarkerPositions)
        /\ \A k \in 1..Len(chapters) :
               /\ chapters[k][1] = story_text[MarkerAt(k)].body
               /\ IsSubsequence(chapters[k][2], ChapterSegment(k))

-----------------------------------------------------------------------------
(* C26 *)

\* C26: for a text without chapter-marker line detect_chapters returns one
\* tuple, titled "Story", whose content is the text without its leading
\* heading lines.
C26_NoMarkerOneStoryChapter ==
    (Detected /\ MarkerPositions = {}) =>
        chapters = <<<<"Story", DropLeadingHeadings(story_text)>>>>

-----------------------------------------------------------------------------
(* The publishing pipeline: agents.py, publisher.py, illustrator.py,       *)
(* narration.py, story.py                                                  *)
(*                                                                         *)
(* A text is a token naming the file that first held it and whether it was *)
(* on disk before the run or written by a model during the run.  The story *)
(* with image markup is the list of its tag numbers, chapter by chapter.   *)

\* Largest number of chapters of a planned story.
MaxChapters == 2

\* Largest number of image tags the planner puts into one chapter.
MaxImagesPerChapter == 2

\* Largest number of files missing from the leftover of an earlier run.
MaxDeleted == 1

\* "Number images sequentially starting from (chapter_num - 1) * 3 + 1".
ImageNumberStride == 3

OnDisk(f) == [of |-> f, gen |-> "disk"]

Generated(f) == [of |-> f, gen |-> "run"]

DraftStory == OnDisk("draft_story.txt")

\* The stages that skip on an existing file and forward its content.
TextStages == {"author_friend", "critique", "content_moderator", "editor", "format_proof"}

OutputFile ==
    [author_friend        |-> "FR_story.txt",
     critique             |-> "CR_story.txt",
     content_moderator    |-> "CM_story.txt",
     editor               |-> "ED_story.txt",
     format_proof         |-> "final_proof_story.txt",
     user                 |-> "final_story.txt",
     narrator             |-> "narration.m4a",
     illustration_planner |-> "image_planner_story.txt"]

Downstream ==
    [author_friend     |-> "critique",
     critique          |-> "content_moderator",
     content_moderator |-> "editor",
     editor            |-> "format_proof",
     format_proof      |-> "user"]

Manuscript(topic, story) == [topic |-> topic, story |-> story]

Exists(f) == disk[f] # Absent

\* The characters of an answer typed at a prompt.
Punctuation == {".", "!"}

Whitespace == {" "}

\* str.lower, character by character.
LowerChar(c) ==
    CASE c = "Y" -> "y"
      [] c = "E" -> "e"
      [] c = "S" -> "s"
      [] c = "N" -> "n"
      [] OTHER   -> c

lower(s) == [i \in 1..Len(s) |-> LowerChar(s[i])]

\* str.strip(chars): the characters are removed from both ends only.
RECURSIVE strip(_, _)
strip(s, chars) ==
    IF s = <<>> THEN s
    ELSE IF Head(s) \in chars THEN strip(Tail(s), chars)
    ELSE IF s[Len(s)] \in chars THEN strip(SubSeq(s, 1, Len(s) - 1), chars)
    ELSE s

Answers == {<<"y">>, <<"Y", ".">>, <<"n">>, <<" ", "y">>, <<"Y", "E", "S", " ">>}

\* user_input.lower().strip(string.punctuation) == "y"
Approves(user_input) == strip(lower(user_input), Punctuation) = <<"y">>

\* user_input.lower().strip() in ["y", "yes"]
Proceeds(user_input) == strip(lower(user_input), Whitespace) \in {<<"y">>, <<"y", "e", "s">>}

\* The tags the planner asks for in chapter chapter_num when it places n images.
ChapterTags(chapter_num, n) ==
    [j \in 1..n |-> (chapter_num - 1) * ImageNumberStride + j]

\* The stories the planner can write: per chapter, its tag numbers.
Plans ==
    UNION {{[k \in 1..c |-> ChapterTags(k, counts[k])] :
                counts \in [1..c -> 1..MaxImagesPerChapter]} : c \in 1..MaxChapters}

\* re.findall(r"<image>(.*?)</image>", message.story): all tags in text order.
ImagePrompts(story_plan) == Flatten(story_plan)

\* The chapters detect_chapters finds in the planner's reconstructed story:
\* without a book title the first "## Chapter" line is taken for the title and
\* the text up to the next marker is dropped.
ProducerChapters(story_plan, has_title) ==
    IF has_title \/ Len(story_plan) <= 1 THEN story_plan ELSE Tail(story_plan)

\* _convert_image_markup_to_html: file_number = markup_number - 1.
file_number(markup_number) == markup_number - 1

\* The image files formatted_book.html refers to.
ImageReferences(story_plan, has_title) ==
    LET tags == Flatten(ProducerChapters(story_plan, has_title))
    IN  {file_number(tags[i]) : i \in 1..Len(tags)}

\* _process_image_element: a reference that resolves is embedded; one that
\* does not is logged and yields no flowable.
\* The missing image is reported by raising.
_process_image_element_Raises(image_reference, images) ==
    IF image_reference \in images
    THEN [embedded |-> TRUE, warning |-> FALSE, raises |-> FALSE]
    ELSE [embedded |-> FALSE, warning |-> FALSE, raises |-> TRUE]

_process_image_element(image_reference, images) ==
    IF image_reference \in images
    THEN [embedded |-> TRUE, warning |-> FALSE, raises |-> FALSE]
    ELSE [embedded |-> FALSE, warning |-> TRUE, raises |-> FALSE]

\* A skipping text stage forwards nothing.
ExistingContentMessages_Silent(stage) == {}

\* What a skipping text stage publishes: the content of its existing file.
ExistingContentMessages(stage) ==
    {Manuscript(Downstream[stage], disk[OutputFile[stage]])}

\* The order in which a full run writes the text files.
WriteOrder ==
    <<"FR_story.txt", "CR_story.txt", "CM_story.txt", "ED_story.txt",
      "final_proof_story.txt", "final_story.txt", "image_planner_story.txt",
      "narration.m4a">>

\* What an interrupted run leaves behind, less the files removed since.
Leftovers ==
    {{WriteOrder[i] : i \in 1..n} \ deleted :
        n \in 0..Len(WriteOrder),
        deleted \in {d \in SUBSET TextFiles : Cardinality(d) <= MaxDeleted}}

\* The messages waiting for a stage.
Inbox(topic) == {m \in inbox : m.topic = topic}

\* The output directories a run can start from: the leftover of the text
\* stages, or a directory in which an earlier run got as far as the book.
Disks ==
    {[f \in Files |-> IF f \in present THEN OnDisk(f) ELSE Absent] :
        present \in Leftovers}
    \cup
    {[f \in Files |-> IF f \in TextFiles \cup CoverFiles \cup present
                      THEN OnDisk(f) ELSE Absent] :
        present \in SUBSET BookFiles}

\* The message each command publishes when it starts the runtime.
InitialMessage(command) ==
    CASE command = "publish_simple" -> Manuscript("critique", DraftStory)
      [] command = "publish"        -> Manuscript("author_friend", DraftStory)
      [] command = "draw"           -> Manuscript("illustration_planner", DraftStory)
      [] command = "narrate"        -> Manuscript("narrator", disk["final_story.txt"])
      [] command = "process"        -> Manuscript("producer", OnDisk("image_planner_story.txt"))

Commands == {"publish_simple", "publish", "draw", "narrate", "process"}

InitPipeline ==
    /\ entry \in Commands
    /\ disk \in Disks
    /\ entry = "narrate" => Exists("final_story.txt")
    /\ inbox = {InitialMessage(entry)}
    /\ model_calls = {}
    /\ writes = {}
    /\ ran = {}
    /\ answer = NoAnswer
    /\ IF Exists("image_planner_story.txt") THEN plan \in Plans ELSE plan = <<>>
    /\ \E k \in 0..MaxChapters * MaxImagesPerChapter :
           /\ image_files = 0..(k - 1)
           /\ k > 0 => Exists("formatted_book.html")
    /\ \E has_title \in BOOLEAN :
           html_refs = IF Exists("formatted_book.html")
                       THEN ImageReferences(plan, has_title) ELSE {}
    /\ errors = {}
    /\ warnings = {}
    /\ pdf_images = {}
    /\ planner_input = "none"
    /\ render_calls = {}
    /\ illustrations = {}
    /\ FormatterIdle
    /\ html = NoDocument
    /\ PdfGeneratorConstructed
    /\ enabled = FALSE
    /\ max_continuations = 0
    /\ stream = FALSE
    /\ pc = "idle"
    /\ full_content = <<>>
    /\ continuation_count = 0
    /\ finish_reason = ""
    /\ total_tokens = 0
    /\ current_messages = <<>>
    /\ requests = <<>>
    /\ responses = <<>>
    /\ returned = <<>>
    /\ cancelled = FALSE

otherVars == <<serviceVars, pdfVars, formatterVars>>

\* FriendProofReaderAgent, CritiqueAgent, ContentModeratorAgent, EditorAgent and
\* FormatProofAgent: handle_intermediate_text.
HandleTextStage(stage) ==
    \E message \in Inbox(stage) :
        /\ ran' = ran \cup {stage}
        /\ IF Exists(OutputFile[stage])
           THEN /\ inbox' = (inbox \ {message}) \cup ExistingContentMessages(stage)
                /\ UNCHANGED <<disk, model_calls, writes>>
           ELSE /\ model_calls' = model_calls \cup {stage}
                /\ disk' = [disk EXCEPT ![OutputFile[stage]] = Generated(OutputFile[stage])]
                /\ writes' = writes \cup {OutputFile[stage]}
                /\ inbox' = (inbox \ {message})
                       \cup {Manuscript(Downstream[stage], Generated(OutputFile[stage]))}
        /\ UNCHANGED <<entry, answer, plan, image_files, html_refs, errors,
                       warnings, pdf_images, planner_input, render_calls, illustrations,
                       otherVars>>

\* UserAgent.handle_final_copy
UserAgent ==
    \E message \in Inbox("user"), user_input \in Answers :
        /\ ran' = ran \cup {"user"}
        /\ disk' = [disk EXCEPT !["final_story.txt"] = message.story]
        /\ writes' = writes \cup {"final_story.txt"}
        /\ answer' = user_input
        /\ inbox' = (inbox \ {message}) \cup
               (IF Approves(user_input)
                THEN {Manuscript("narrator", message.story),
                      Manuscript("illustration_planner", message.story)}
                ELSE {})
        /\ UNCHANGED <<entry, model_calls, plan, image_files, html_refs, errors,
                       warnings, pdf_images, planner_input, render_calls, illustrations,
                       otherVars>>

\* NarratorAgent.handle_final_copy
NarratorAgent ==
    \E message \in Inbox("narrator") :
        /\ ran' = ran \cup {"narrator"}
        /\ inbox' = inbox \ {message}
        /\ IF Exists("narration.m4a")
           THEN UNCHANGED <<disk, model_calls, writes>>
           ELSE /\ model_calls' = model_calls \cup {"narrator"}
                /\ disk' = [disk EXCEPT !["narration.m4a"] = Generated("narration.m4a")]
                /\ writes' = writes \cup {"narration.m4a"}
        /\ UNCHANGED <<entry, answer, plan, image_files, html_refs, errors,
                       warnings, pdf_images, planner_input, render_calls, illustrations,
                       otherVars>>

\* IllustrationPlannerAgent.handle_intermediate_text
IllustrationPlannerAgent ==
    \E message \in Inbox("illustration_planner") :
        /\ ran' = ran \cup {"illustration_planner"}
        /\ IF Exists("image_planner_story.txt")
           THEN /\ inbox' = (inbox \ {message})
                       \cup {Manuscript("illustrator", disk["image_planner_story.txt"])}
                /\ UNCHANGED <<disk, model_calls, writes, plan, planner_input, warnings>>
           ELSE /\ IF Exists("final_story.txt")
                   THEN /\ planner_input' = "final_story.txt"
                        /\ UNCHANGED warnings
                   ELSE /\ planner_input' = "message.story"
                        /\ warnings' = warnings \cup
                               {[stage |-> "illustration_planner",
                                 about |-> "final_story.txt not found"]}
                /\ plan' \in Plans
                /\ model_calls' = model_calls \cup {"illustration_planner"}
                /\ disk' = [disk EXCEPT !["image_planner_story.txt"] =
                                            Generated("image_planner_story.txt")]
                /\ writes' = writes \cup {"image_planner_story.txt"}
                /\ inbox' = (inbox \ {message})
                       \cup {Manuscript("illustrator", Generated("image_planner_story.txt"))}
        /\ UNCHANGED <<entry, answer, image_files, html_refs, errors,
                       pdf_images, render_calls, illustrations, otherVars>>

\* IllustratorAgent.handle_request_to_illustrate with _generate_cover_images:
\* the i-th tag of the story, counted from 0, is drawn into image_{i}.png.  The
\* image model is taken to answer every call, as the text models are.
IllustratorAgent ==
    \E message \in Inbox("illustrator") :
        LET image_prompts == ImagePrompts(plan)
            positions == 0..(Len(image_prompts) - 1)
            missing_covers == {c \in CoverFiles : ~Exists(c)}
        IN  /\ ran' = ran \cup {"illustrator"}
            /\ disk' = [f \in Files |-> IF f \in missing_covers
                                        THEN Generated(f) ELSE disk[f]]
            /\ writes' = writes \cup missing_covers
            /\ image_files' = image_files \cup positions
            /\ illustrations' =
                   {[tag |-> image_prompts[i + 1], file |-> i] : i \in positions}
            /\ model_calls' = IF positions \ image_files # {} \/ missing_covers # {}
                              THEN model_calls \cup {"illustrator"}
                              ELSE model_calls
            /\ inbox' = (inbox \ {message})
                   \cup {Manuscript("producer", message.story),
                         Manuscript("movie_director_type", message.story)}
            /\ UNCHANGED <<entry, answer, plan, html_refs, errors,
                           warnings, pdf_images, planner_input, render_calls, otherVars>>

\* PDFGenerator.generate_pdf as the producer sees it: every image reference
\* is resolved while the story is laid out; a failing build deletes the file
\* and raises.
GeneratePdfOutcome(references, images, build_fails) ==
    LET results == [r \in references |-> _process_image_element(r, images)]
        raises  == build_fails \/ \E r \in references : results[r].raises
    IN  [renderer    |-> "pdf",
         fails       |-> build_fails,
         missing     |-> references \ images,
         embedded    |-> {r \in references : results[r].embedded},
         warned      |-> {r \in references : results[r].warning},
         raised      |-> raises,
         file_exists |-> ~raises]

\* EPUBGenerator.generate_epub: a failing assembly is logged and answered with
\* _create_fallback_epub at the same path, whose own failure is logged too.
GenerateEpubOutcome(assembly_fails, fallback_fails, partial_file) ==
    [renderer    |-> "epub",
     fails       |-> assembly_fails,
     missing     |-> {},
     embedded    |-> {},
     warned      |-> {},
     raised      |-> FALSE,
     file_exists |-> IF ~assembly_fails THEN TRUE
                     ELSE IF ~fallback_fails THEN TRUE
                     ELSE partial_file]

FileNotFound(stage, run_first) ==
    [stage |-> stage, error |-> "FileNotFoundError", run_first |-> run_first]

RenderFailed(stage, renderer) ==
    [stage |-> stage, error |-> "Exception", run_first |-> renderer]

\* The ways generate_epub can end: assembled; assembly failed and the
\* fallback was written; both failed, with or without a file left behind.
EpubOutcomes ==
    {GenerateEpubOutcome(FALSE, FALSE, FALSE), GenerateEpubOutcome(TRUE, FALSE, FALSE),
     GenerateEpubOutcome(TRUE, TRUE, TRUE), GenerateEpubOutcome(TRUE, TRUE, FALSE)}

\* BookProducerAgent.handle_intermediate_text with _generate_formatted_book_content
\* and _generate_book_outputs.
BookProducerAgent ==
    \E message \in Inbox("producer") :
        /\ ran' = ran \cup {"producer"}
        /\ inbox' = inbox \ {message}
        /\ UNCHANGED <<entry, answer, plan, image_files, planner_input,
                       illustrations, otherVars>>
        /\ IF ~Exists("formatted_book.html") /\ ~Exists("image_planner_story.txt")
           THEN /\ errors' = errors \cup {FileNotFound("producer", "IllustrationPlannerAgent")}
                /\ UNCHANGED <<disk, model_calls, writes, html_refs, warnings, pdf_images,
                               render_calls>>
           ELSE \E refs \in IF Exists("formatted_book.html") THEN {html_refs}
                            ELSE {ImageReferences(plan, has_title) : has_title \in BOOLEAN},
                   proceeds \in {Proceeds(user_input) : user_input \in Answers} :
                /\ html_refs' = refs
                /\ IF ~proceeds
                   THEN /\ model_calls' = IF Exists("formatted_book.html") THEN model_calls
                                          ELSE model_calls \cup {"producer"}
                        /\ disk' = [disk EXCEPT !["formatted_book.html"] =
                                        IF @ = Absent THEN Generated("formatted_book.html") ELSE @]
                        /\ writes' = IF Exists("formatted_book.html") THEN writes
                                     ELSE writes \cup {"formatted_book.html"}
                        /\ UNCHANGED <<warnings, pdf_images, render_calls, errors>>
                   ELSE \E build_fails \in IF Exists("book.pdf") THEN {FALSE} ELSE BOOLEAN :
                        LET do_pdf  == ~Exists("book.pdf")
                            pdf     == GeneratePdfOutcome(refs, image_files, build_fails)
                            aborted == do_pdf /\ pdf.raised
                            do_epub == ~aborted /\ ~Exists("book.epub")
                            do_md   == ~aborted /\ ~Exists("book.md")
                        IN  \E epub \in IF do_epub THEN EpubOutcomes
                                        ELSE {GenerateEpubOutcome(FALSE, FALSE, FALSE)} :
                            LET written ==
                                    (IF Exists("formatted_book.html") THEN {}
                                     ELSE {"formatted_book.html"})
                                    \cup (IF do_pdf /\ pdf.file_exists THEN {"book.pdf"} ELSE {})
                                    \cup (IF do_epub /\ epub.file_exists THEN {"book.epub"}
                                          ELSE {})
                                    \cup (IF do_md THEN {"book.md"} ELSE {})
                            IN  /\ model_calls' = model_calls \cup {"producer"}
                                /\ disk' = [f \in Files |-> IF f \in written THEN Generated(f)
                                                            ELSE disk[f]]
                                /\ writes' = writes \cup written
                                /\ warnings' = IF do_pdf
                                               THEN warnings \cup
                                                    {[stage |-> "pdf", about |-> r] :
                                                        r \in pdf.warned}
                                               ELSE warnings
                                /\ pdf_images' = IF do_pdf THEN pdf.embedded ELSE pdf_images
                                /\ render_calls' = render_calls
                                       \cup (IF do_pdf THEN {pdf} ELSE {})
                                       \cup (IF do_epub THEN {epub} ELSE {})
                                /\ errors' = IF aborted
                                             THEN errors \cup {RenderFailed("producer", "pdf")}
                                             ELSE errors

NextPipeline ==
    \/ \E stage \in TextStages : HandleTextStage(stage)
    \/ UserAgent
    \/ NarratorAgent
    \/ IllustrationPlannerAgent
    \/ IllustratorAgent
    \/ BookProducerAgent

SpecPipeline == InitPipeline /\ [][NextPipeline]_vars

-----------------------------------------------------------------------------
(* The publishing pipeline: vocabulary of the properties *)

\* The commands that run the whole pipeline (publisher.py).
PublisherRun == entry \in {"publish", "publish_simple"}

\* The stages behind the approval prompt of the user stage.
LaterStages == {"narrator", "illustration_planner", "illustrator", "producer"}

Triggered(stage) == stage \in ran \/ Inbox(stage) # {}

\* The stage's handler runs in this step.
Runs(stage) == stage \notin ran /\ stage \in ran'

\* No message waits for a stage of the pipeline.
Quiescent ==
    \A stage \in TextStages \cup {"user"} \cup LaterStages : Inbox(stage) = {}

\* The place of a stage on the way of a manuscript through the pipeline.
StageRank ==
    [author_friend |-> 1, critique |-> 2, content_moderator |-> 3, editor |-> 4,
     format_proof |-> 5, user |-> 6, narrator |-> 7, illustration_planner |-> 7,
     illustrator |-> 8, producer |-> 9]

\* The stages a command's manuscript passes that skip on an existing file,
\* and the file each looks for.
SkippingStages(command) ==
    CASE command = "publish" ->
             TextStages \cup {"narrator", "illustration_planner", "producer"}
      [] command = "publish_simple" ->
             (TextStages \ {"author_friend"})
                 \cup {"narrator", "illustration_planner", "producer"}
      [] command = "draw"    -> {"illustration_planner", "producer"}
      [] command = "narrate" -> {"narrator"}
      [] command = "process" -> {"producer"}

SkipFile(stage) ==
    IF stage = "producer" THEN "formatted_book.html" ELSE OutputFile[stage]

\* The file of the stage was not in the output directory when the run began.
MissingAtStart(stage) == disk[SkipFile(stage)] # OnDisk(SkipFile(stage))

\* The first stages on the way whose output file was missing.
FirstMissing ==
    {stage \in SkippingStages(entry) :
        /\ MissingAtStart(stage)
        /\ \A earlier \in SkippingStages(entry) :
               StageRank[earlier] < StageRank[stage] => ~MissingAtStart(earlier)}

-----------------------------------------------------------------------------
(* C30 *)

\* C30 as stated: in a publisher run the narrator and the illustration planner
\* are triggered, and later stages run, only if the user's answer is 'y'.
C30_OnlyLiteralYTriggers ==
    PublisherRun =>
        \A stage \in LaterStages :
            Triggered(stage) => ("user" \in ran /\ answer = <<"y">>)

\* C30: in a publisher run the narrator and the illustration planner are
\* triggered, and every later stage runs, only after the user stage has read an
\* answer that is 'y' once lower-cased and freed of surrounding punctuation;
\* after any other answer no message waits for a later stage and none has run.
C30_ApprovalGate ==
    PublisherRun =>
        \A stage \in LaterStages :
            Triggered(stage) =>
                ("user" \in ran /\ strip(lower(answer), Punctuation) = <<"y">>)

C30_Witness ==
    /\ PublisherRun
    /\ answer = <<"Y", ".">>
    /\ "illustration_planner" \in ran
    /\ "narrator" \in ran

-----------------------------------------------------------------------------
(* C28 *)

-----------------------------------------------------------------------------
(* C22 *)

\* C22: a stage that does not skip and finds the output file of the stage it
\* depends on missing (the planner: final_story.txt; the producer:
\* image_planner_story.txt) raises an error naming the stage to run first, and
\* neither calls a model nor writes a file.
C22_MissingUpstreamIsFatal ==
    [][/\ (Runs("illustration_planner") /\ ~Exists("image_planner_story.txt")
              /\ ~Exists("final_story.txt")) =>
              /\ \E e \in errors' \ errors : e.stage = "illustration_planner"
              /\ model_calls' = model_calls
              /\ disk' = disk
       /\ (Runs("producer") /\ ~Exists("formatted_book.html")
              /\ ~Exists("image_planner_story.txt")) =>
              /\ FileNotFound("producer", "IllustrationPlannerAgent") \in errors' \ errors
              /\ model_calls' = model_calls
              /\ disk' = disk
      ]_vars

-----------------------------------------------------------------------------
(* C23 *)

\* The named output files of a stage.
NamedOutputs(stage) ==
    CASE stage \in TextStages -> {OutputFile[stage]}
      [] stage = "user" -> {"final_story.txt"}
      [] stage = "narrator" -> {"narration.m4a"}
      [] stage = "illustration_planner" -> {"image_planner_story.txt"}
      [] stage = "producer" -> BookFiles

\* C23: a stage triggered while all its named output files exist neither calls
\* its generative model nor writes any of those files.
C23_ExistingOutputIsLeftAlone ==
    [][\A stage \in TextStages \cup {"user", "narrator", "illustration_planner", "producer"} :
           (Runs(stage) /\ \A f \in NamedOutputs(stage) : Exists(f)) =>
               /\ model_calls' = model_calls
               /\ \A f \in NamedOutputs(stage) : f \notin writes' \ writes
      ]_vars

-----------------------------------------------------------------------------
(* C24 *)

\* C24: the file the illustrator draws for a tag numbered N is image_{N-1}.png,
\* the file the document formatter resolves for tag N.
C24_IllustratorAndFormatterAgree ==
    \A drawn \in illustrations : drawn.file = file_number(drawn.tag)

-----------------------------------------------------------------------------
(* C21 *)

\* C21: when the assembly of the PDF or of the EPUB fails, the render call
\* ends by raising and with no file at the output path.
C21_FailedRenderLeavesNoFile ==
    \A call \in render_calls :
        call.fails => (call.raised /\ ~call.file_exists)

-----------------------------------------------------------------------------
(* C27 *)

====
